---- MODULE Spec2Model ----
(***************************************************************************)
(* Model of the end-of-block order-book filler plugin                      *)
(* (ingest/usecase/plugins/orderbookfiller/ordebook_filler_ingest_plugin.go)*)
(*                                                                         *)
(* Calls are the threads that invoke ProcessEndBlock on one plugin         *)
(* instance, each one block after the other, concurrently with the other   *)
(* threads.  A gated invocation owns a run: its block context (transaction *)
(* context, cancellation), its result channel, its loop variables and the  *)
(* worker goroutines it spawned.  Workers outlive the invocation when the  *)
(* collection loop gave up on them.  Once an invocation is over nothing of *)
(* it is left but the goroutines still running and what they hold.  An     *)
(* unrecovered panic ends the process and leaves no state at all.          *)
(***************************************************************************)
EXTENDS Integers, Sequences, FiniteSets, TLC

\* Number of threads invoking ProcessEndBlock.
NumCalls == 2
\* Number of canonical order-book pools returned by the pool registry.
NumPools == 1

Calls == 1..NumCalls
Pools == 1..NumPools
\* ask: quote -> base, bid: base -> quote
Dirs == {"ask", "bid"}

Nil == "nil"
None == "none"

VARIABLES
    atomicBool,     \* o.atomicBool
    panicked,       \* an unrecovered goroutine panic has ended the process
    pc,             \* position of each invocation of ProcessEndBlock
    ret,            \* value returned by each invocation
    cas,            \* outcome of the invocation's CompareAndSwap
    ext,            \* external fetches the invocation has made
    ticksErr,       \* value returned by fetchTicksForModifiedOrderbooks
    run,            \* the run of each invocation (see FreshRun)
    arb,            \* one worker followed through processOrderBook and the
                    \* arb search in isolation (see ArbSpec); idle under Spec
    uniq            \* one call of getUniqueOrderbookDenoms in isolation
                    \* (see DenomSpec); idle under Spec and ArbSpec

vars == <<atomicBool, panicked, pc, ret, cas, ext, ticksErr, run, arb, uniq>>

\* The run of an invocation before it has done anything.
FreshRun ==
    [ cancelled    |-> FALSE,   \* blockCtx.Done() is readable
      chanState    |-> None,    \* resultChan: none / open / closed
      resultChan   |-> <<>>,    \* results buffered in resultChan
      li           |-> 1,       \* index of the launch loop
      ineligibleOrderbooks |-> 0,
      ci           |-> 0,       \* i of the collection loop
      wpc          |-> [p \in Pools |-> None],  \* position of each worker
      werr         |-> [p \in Pools |-> Nil],   \* err of each worker
      dirDone      |-> [p \in Pools |-> {}],    \* finished direction goroutines
      dirErr       |-> [p \in Pools |-> {}],    \* directions whose search
                                \* returned an error, until the worker exits
      txMsgs       |-> <<>>,    \* pending batch of the block's tx context
      usedPools    |-> {},      \* pools logged as used in that tx context
      addCount     |-> 0,       \* AddMsg calls made on that tx context
      immExec      |-> {},      \* messages executed by fillImmediate
      executed     |-> [p \in Pools, d \in Dirs |-> 0],
                                \* successful executions of each pool's
                                \* ask and bid message
      originalMsgs |-> <<>>,    \* originalMsgs
      fi           |-> 0,       \* 0: batch fill, i >= 1: i-th fallback iteration
      sdkMsgs      |-> <<>>,    \* sdkMsgs of the running tryFill
      ops          |-> <<>>,    \* calls made by the running (or last) tryFill
      adjustedGasTotal |-> None,
                                \* what UpdateAdjustedGasTotal last wrote
      fillLog      |-> <<>> ]   \* outcome of every tryFill call so far

\* No worker is followed in isolation.
NoArb == [pc |-> "off"]

\* No call of getUniqueOrderbookDenoms is followed in isolation.
NoUniq == [pc |-> "off"]

Init ==
    /\ atomicBool = FALSE
    /\ panicked = FALSE
    /\ pc = [c \in Calls |-> "idle"]
    /\ ret = [c \in Calls |-> None]
    /\ cas = [c \in Calls |-> None]
    /\ ext = [c \in Calls |-> {}]
    /\ ticksErr = [c \in Calls |-> None]
    /\ run = [c \in Calls |-> FreshRun]
    /\ arb = NoArb
    /\ uniq = NoUniq

----------------------------------------------------------------------------
(* Transaction context (context/tx): the pending batch and the used pools.  *)

Msg(p, d) == [pool |-> p, dir |-> d]

\* txCtx.AddMsg(msg, toBatch), lowValue being what msg.IsLowValue() answers.
\* The used / logged pools are those of the messages that were filled
\* immediately; every other message is in the pending batch: a low-value
\* message, and one added with toBatch.
AddMsgBatch(msgs, m, lowValue, toBatch) ==
    IF toBatch \/ lowValue THEN Append(msgs, m) ELSE msgs

AddMsgUsed(used, m, lowValue, toBatch) ==
    IF toBatch \/ lowValue THEN used ELSE used \cup {m.pool}

\* executeTx succeeded on a transaction context holding msgs: the executions
\* of each message are counted.
Executed(executed, msgs) ==
    [p \in Pools, d \in Dirs |->
        executed[p, d] +
        Cardinality({i \in 1..Len(msgs) : msgs[i].pool = p /\ msgs[i].dir = d})]

\* txCtx.RankAndFilterMsgs(): ranks the batch and keeps its first k messages.
RankAndFilterMsgs(msgs, k) == SubSeq(msgs, 1, k)

\* The numbers of messages RankAndFilterMsgs may keep of a non-empty batch:
\* all of them, or all but the lowest ranked.
KeptLens(msgs) == {k \in {Len(msgs) - 1, Len(msgs)} : k >= 1}

----------------------------------------------------------------------------
(* ProcessEndBlock, up to the gate.                                         *)

Alive == ~panicked

\* o.poolsUseCase.GetAllCanonicalOrderbookPoolIDs() and the early return.
GetAllCanonicalOrderbookPoolIDs(c) ==
    /\ Alive
    /\ pc[c] = "idle"
    /\ ext' = [ext EXCEPT ![c] = @ \cup {"registry"}]
    /\ \E ok \in BOOLEAN :
        IF ok
        THEN /\ pc' = [pc EXCEPT ![c] = "ticks"]
             /\ ret' = ret
        ELSE /\ pc' = [pc EXCEPT ![c] = "exit"]
             /\ ret' = [ret EXCEPT ![c] = "ErrRegistry"]
    /\ UNCHANGED <<atomicBool, panicked, arb, uniq, cas, ticksErr, run>>

\* Error returned by g.Wait(): the error of a failed fetch, if any.
fetchTicksResult(refreshed, failing) ==
    IF refreshed \cap failing # {} THEN "ErrTicks" ELSE Nil

\* fetchTicksForModifiedOrderbooks: one fetch per canonical pool that is in
\* the block's updated-pool set.  ProcessEndBlock calls it as a statement:
\* the returned error is not looked at.
fetchTicksForModifiedOrderbooks(c) ==
    /\ Alive
    /\ pc[c] = "ticks"
    /\ \E updated \in SUBSET Pools, failing \in SUBSET Pools :
        LET refreshed == {p \in Pools : p \in updated}
        IN /\ failing \subseteq refreshed
           /\ ticksErr' = [ticksErr EXCEPT ![c] =
                             fetchTicksResult(refreshed, failing)]
           /\ ext' = [ext EXCEPT ![c] =
                        IF refreshed # {} THEN @ \cup {"ticks"} ELSE @]
    /\ pc' = [pc EXCEPT ![c] = "gate"]
    /\ UNCHANGED <<atomicBool, panicked, arb, uniq, ret, cas, run>>

\* Faulty variant of CompareAndSwapOK: a plain Store(true) in place of the CAS.
CompareAndSwapAlways(flag, old) == TRUE

\* atomic.Bool.CompareAndSwap(old, new) succeeds iff the flag holds old.
CompareAndSwapOK(flag, old) == flag = old

\* Faulty variant of CompareAndSwap: the losing branch logs but does not return.
CompareAndSwapNoReturn(c) ==
    /\ ~panicked
    /\ pc[c] = "gate"
    /\ atomicBool' = TRUE
    /\ cas' = [cas EXCEPT ![c] = IF atomicBool THEN "lost" ELSE "won"]
    /\ pc' = [pc EXCEPT ![c] = "balances"]
    /\ UNCHANGED <<panicked, arb, uniq, ret, ext, ticksErr, run>>

\* if !o.atomicBool.CompareAndSwap(false, true) { return nil }
CompareAndSwap(c) ==
    /\ Alive
    /\ pc[c] = "gate"
    /\ IF CompareAndSwapOK(atomicBool, FALSE)
       THEN /\ atomicBool' = TRUE
            /\ cas' = [cas EXCEPT ![c] = "won"]
            /\ pc' = [pc EXCEPT ![c] = "balances"]
            /\ ret' = ret
       ELSE /\ atomicBool' = atomicBool
            /\ cas' = [cas EXCEPT ![c] = "lost"]
            /\ pc' = [pc EXCEPT ![c] = "exit"]
            /\ ret' = [ret EXCEPT ![c] = Nil]
    /\ UNCHANGED <<panicked, arb, uniq, ext, ticksErr, run>>

----------------------------------------------------------------------------
(* ProcessEndBlock inside the gate: fetches, block context, fan-out.        *)

\* Faulty variant of GatedFetch: the failing fetch returns before the deferred
\* Store(false) is registered.
GatedFetchNoDefer(c, at, name, next, err) ==
    /\ ~panicked
    /\ pc[c] = at
    /\ ext' = [ext EXCEPT ![c] = @ \cup {name}]
    /\ \E ok \in BOOLEAN :
        IF ok
        THEN /\ pc' = [pc EXCEPT ![c] = next]
             /\ ret' = ret
        ELSE /\ pc' = [pc EXCEPT ![c] = "exit"]
             /\ ret' = [ret EXCEPT ![c] = err]
    /\ UNCHANGED <<atomicBool, panicked, arb, uniq, cas, ticksErr>>

\* Faulty variant of GatedFetch: the error is kept but the function goes on.
GatedFetchGoOn(c, at, name, next, err) ==
    /\ ~panicked
    /\ pc[c] = at
    /\ ext' = [ext EXCEPT ![c] = @ \cup {name}]
    /\ pc' = [pc EXCEPT ![c] = next]
    /\ \E ok \in BOOLEAN :
        ret' = IF ok THEN ret ELSE [ret EXCEPT ![c] = err]
    /\ UNCHANGED <<atomicBool, panicked, arb, uniq, cas, ticksErr>>

\* An external fetch made after the gate: on failure ProcessEndBlock returns
\* the error, and the deferred Store(false) is the only thing left to run.
GatedFetch(c, at, name, next, err) ==
    /\ Alive
    /\ pc[c] = at
    /\ ext' = [ext EXCEPT ![c] = @ \cup {name}]
    /\ \E ok \in BOOLEAN :
        IF ok
        THEN /\ pc' = [pc EXCEPT ![c] = next]
             /\ ret' = ret
        ELSE /\ pc' = [pc EXCEPT ![c] = "release"]
             /\ ret' = [ret EXCEPT ![c] = err]
    /\ UNCHANGED <<atomicBool, panicked, arb, uniq, cas, ticksErr>>

\* o.passthroughGRPCClient.AllBalances
AllBalances(c) ==
    /\ GatedFetch(c, "balances", "balances", "prices", "ErrBalances")
    /\ run' = run

\* o.tokensUseCase.GetPrices
GetPrices(c) ==
    /\ GatedFetch(c, "prices", "prices", "blockctx", "ErrPrices")
    /\ run' = run

\* blockctx.New, then make(chan orderBookProcessResult, len(canonicalOrderbooks))
blockctxNew(c) ==
    /\ GatedFetch(c, "blockctx", "blockctx", "launch", "ErrBlockCtx")
    /\ run' = IF pc'[c] = "launch"
              THEN [run EXCEPT ![c].chanState = "open"] ELSE run

\* One iteration of the launch loop: validateUserBalances decides whether
\* the pool gets a worker goroutine.
LaunchWorker(c) ==
    /\ Alive
    /\ pc[c] = "launch"
    /\ run[c].li <= NumPools
    /\ \E eligible \in BOOLEAN :
        run' = IF eligible
               THEN [run EXCEPT ![c].wpc[run[c].li] = "start",
                                ![c].li = @ + 1]
               ELSE [run EXCEPT ![c].ineligibleOrderbooks = @ + 1,
                                ![c].li = @ + 1]
    /\ pc' = [pc EXCEPT ![c] = IF run[c].li = NumPools THEN "collect" ELSE @]
    /\ UNCHANGED <<atomicBool, panicked, arb, uniq, ret, cas, ext, ticksErr>>

\* The context of the invocation is cancelled from outside.  Only the
\* collection loop looks at blockCtx.Done(), so only a cancellation that
\* has happened by then is told apart.
Cancel(c) ==
    /\ Alive
    /\ pc[c] = "collect"
    /\ ~run[c].cancelled
    /\ run' = [run EXCEPT ![c].cancelled = TRUE]
    /\ UNCHANGED <<atomicBool, panicked, arb, uniq, pc, ret, cas, ext, ticksErr>>

\* len(canonicalOrderbooks)-ineligibleOrderbooks
CollectBound(c) == NumPools - run[c].ineligibleOrderbooks

CollectStep(c) ==
    /\ Alive
    /\ pc[c] = "collect"
    /\ run[c].ci < CollectBound(c)
    /\ UNCHANGED <<atomicBool, panicked, arb, uniq, pc, ret, cas, ext, ticksErr>>

\* case result := <-resultChan
CollectResult(c) ==
    /\ CollectStep(c)
    /\ run[c].resultChan # <<>>
    /\ run' = [run EXCEPT ![c].resultChan = Tail(@), ![c].ci = @ + 1]

\* case <-blockCtx.Done()
CollectCancelled(c) ==
    /\ CollectStep(c)
    /\ run[c].cancelled
    /\ run' = [run EXCEPT ![c].ci = @ + 1]

\* case <-time.After(100 * time.Second)
CollectTimeout(c) ==
    /\ CollectStep(c)
    /\ run' = [run EXCEPT ![c].ci = @ + 1]

\* originalMsgs := blockCtx.GetTxCtx().GetMsgs(), once the loop is over
GetMsgs(c) ==
    /\ Alive
    /\ pc[c] = "collect"
    /\ run[c].ci >= CollectBound(c)
    /\ run' = [run EXCEPT ![c].originalMsgs = run[c].txMsgs]
    /\ pc' = [pc EXCEPT ![c] = "fill_sim"]
    /\ UNCHANGED <<atomicBool, panicked, arb, uniq, ret, cas, ext, ticksErr>>

----------------------------------------------------------------------------
(* tryFill and the batch / fallback logic of ProcessEndBlock.               *)

Step(p, f, r) == [pc |-> p, fi |-> f, ret |-> r]

\* Faulty variant of AfterBatchFill: the single-message case falls back as well.
AfterBatchFillNoSingle(c, err) ==
    IF err = Nil THEN Step("close", 0, Nil)
    ELSE IF Len(run[c].originalMsgs) = 0 THEN Step("close", 0, Nil)
    ELSE Step("fill_sim", 1, None)

\* What ProcessEndBlock does with the result of the batch tryFill.
AfterBatchFill(c, err) ==
    IF err = Nil THEN Step("close", 0, Nil)
    ELSE IF Len(run[c].originalMsgs) = 1 THEN Step("close", 0, err)
    ELSE IF Len(run[c].originalMsgs) = 0 THEN Step("close", 0, Nil)
    ELSE Step("fill_sim", 1, None)

\* Faulty variant of AfterFallbackFill: a failed fallback fill ends the loop and is
\* returned.
AfterFallbackFillStop(c, err) ==
    IF err # Nil THEN Step("close", run[c].fi, err)
    ELSE IF run[c].fi < Len(run[c].originalMsgs)
    THEN Step("fill_sim", run[c].fi + 1, None)
    ELSE Step("close", run[c].fi, Nil)

\* What the fallback loop does with the result of its fi-th tryFill: the
\* error is logged and the loop goes on with the next original message.
AfterFallbackFill(c, err) ==
    IF run[c].fi < Len(run[c].originalMsgs)
    THEN Step("fill_sim", run[c].fi + 1, None)
    ELSE Step("close", run[c].fi, Nil)

\* tryFill has returned err to ProcessEndBlock; r is the run as tryFill
\* left it.
tryFillReturn(c, r, err, outcome) ==
    LET nxt == IF run[c].fi = 0 THEN AfterBatchFill(c, err)
               ELSE AfterFallbackFill(c, err)
    IN /\ pc' = [pc EXCEPT ![c] = nxt.pc]
       /\ ret' = IF nxt.ret = None THEN ret ELSE [ret EXCEPT ![c] = nxt.ret]
       /\ run' = [run EXCEPT ![c] =
                    [r EXCEPT !.fi = nxt.fi,
                              !.fillLog = Append(@, [fi |-> run[c].fi,
                                                     res |-> outcome,
                                                     err |-> err])]]

\* The pending batch tryFill works on: that of ctx.GetTxCtx(), the block
\* context's transaction context.
tryFillTxCtx(c) == run[c].txMsgs

\* A call tryFill makes and the error it got from it.
Op(name, err) == [op |-> name, err |-> err]

\* Faulty variant of simulateMsgsFailed: the error of the simulation is
\* dropped.
simulateMsgsFailedNever(err) == FALSE

\* if err != nil { return err } after simulateMsgs
simulateMsgsFailed(err) == err # Nil

\* tryFill up to and including simulateMsgs.
tryFillSimulate(c) ==
    /\ Alive
    /\ pc[c] = "fill_sim"
    /\ IF tryFillTxCtx(c) = <<>>
       THEN tryFillReturn(c, [run[c] EXCEPT !.ops = <<>>], Nil, "empty")
       ELSE \E k \in KeptLens(tryFillTxCtx(c)),
               err \in {Nil, "ErrSimulate"} :
            LET kept == RankAndFilterMsgs(tryFillTxCtx(c), k)
                r == [run[c] EXCEPT
                        !.txMsgs = kept,
                        !.sdkMsgs = kept,
                        !.ops = <<Op("RankAndFilterMsgs", Nil),
                                  Op("simulateMsgs", err)>>]
            IN IF simulateMsgsFailed(err)
               THEN tryFillReturn(c, r, err, "ErrSimulate")
               ELSE /\ pc' = [pc EXCEPT ![c] = "fill_exec"]
                    /\ run' = [run EXCEPT ![c] = r]
                    /\ ret' = ret
    /\ UNCHANGED <<atomicBool, panicked, arb, uniq, cas, ext, ticksErr>>

\* tryFill from UpdateAdjustedGasTotal on: executeTx on ctx.GetTxCtx().
tryFillExecute(c) ==
    /\ Alive
    /\ pc[c] = "fill_exec"
    /\ \E err \in {Nil, "ErrExecute"} :
        LET r == [run[c] EXCEPT
                    !.adjustedGasTotal = "adjustedGasAmount",
                    !.ops = @ \o <<Op("UpdateAdjustedGasTotal", Nil),
                                   Op("executeTx", err)>>]
        IN IF err = Nil
           THEN tryFillReturn(c, [r EXCEPT
                                    !.executed = Executed(@, run[c].sdkMsgs)],
                              Nil, "ok")
           ELSE tryFillReturn(c, r, err, "ErrExecute")
    /\ UNCHANGED <<atomicBool, panicked, arb, uniq, cas, ext, ticksErr>>

\* defer close(resultChan)
closeResultChan(c) ==
    /\ Alive
    /\ pc[c] = "close"
    /\ run' = [run EXCEPT ![c].chanState = "closed"]
    /\ pc' = [pc EXCEPT ![c] = "release"]
    /\ UNCHANGED <<atomicBool, panicked, arb, uniq, ret, cas, ext, ticksErr>>

\* Worker goroutines of the run that have not finished.
LiveWorkers(c) == {p \in Pools : run[c].wpc[p] \in {"start", "dirs", "send"}}

\* What is left of a run once ProcessEndBlock has returned: nothing, unless
\* worker goroutines are still running.  Then what decides their future is
\* left: their positions and the channel they will send on.  The frame of
\* ProcessEndBlock is gone, and nothing reads the transaction context again.
AfterReturn(r, live) ==
    IF live = {} THEN FreshRun
    ELSE [FreshRun EXCEPT !.chanState = r.chanState,
                          !.wpc = r.wpc,
                          !.werr = r.werr,
                          !.dirDone = r.dirDone]

\* The invocation is over and its caller has the result: the thread is free
\* for the next block, unless workers of this one are still running; their
\* run stays, and the thread starts no further invocation ("orphaned").
Returned(c) ==
    /\ pc' = [pc EXCEPT ![c] = IF LiveWorkers(c) = {} THEN "idle" ELSE "orphaned"]
    /\ ret' = [ret EXCEPT ![c] = None]
    /\ cas' = [cas EXCEPT ![c] = None]
    /\ ext' = [ext EXCEPT ![c] = {}]
    /\ ticksErr' = [ticksErr EXCEPT ![c] = None]
    /\ run' = [run EXCEPT ![c] = AfterReturn(@, LiveWorkers(c))]

\* The value the deferred atomicBool.Store writes.
StoredValue == FALSE

\* defer o.atomicBool.Store(false), the last thing a gated invocation does:
\* at "release" its return value is fixed.
StoreFalse(c) ==
    /\ Alive
    /\ pc[c] = "release"
    /\ atomicBool' = StoredValue
    /\ Returned(c)
    /\ UNCHANGED <<panicked, arb, uniq>>

\* An invocation that returned before the gate or at the gate (at "exit")
\* is over.
Return(c) ==
    /\ Alive
    /\ pc[c] = "exit"
    /\ Returned(c)
    /\ UNCHANGED <<atomicBool, panicked, arb, uniq>>

----------------------------------------------------------------------------
(* Worker goroutines.                                                       *)

\* processOrderBook up to the two direction goroutines: getFillableOrders
\* and the clamping.
processOrderBook(c, p) ==
    /\ Alive
    /\ run[c].wpc[p] = "start"
    /\ \E ok \in BOOLEAN :
        run' = IF ok
               THEN [run EXCEPT ![c].wpc[p] = "dirs"]
               ELSE [run EXCEPT ![c].wpc[p] = "send",
                                ![c].werr[p] = "ErrFillable"]
    /\ UNCHANGED <<atomicBool, panicked, arb, uniq, pc, ret, cas, ext, ticksErr>>

\* Faulty variant of FillsImmediately: every winning message is executed
\* immediately.
FillsImmediatelyAlways(low) == TRUE

\* if !msgCtx.IsLowValue() { ierr = o.fillImmediate(ctx, msgCtx) }
FillsImmediately(low) == ~low

\* Faulty variant of AddMsgFlag: the message is only ever logged as used.
AddMsgFlagNever(ierr) == FALSE

\* The second argument of txCtx.AddMsg(msgCtx, ierr != nil)
AddMsgFlag(ierr) == ierr # Nil

\* ierr after the fill-immediately block: set only when fillImmediate was
\* called and its executeTx failed.
ImmediateErr(low, immOK) ==
    IF FillsImmediately(low) /\ ~immOK THEN "ErrImmediate" ELSE Nil

\* The two direction goroutines of the worker of pool p have been started:
\* processOrderBook is past fillWg.Add(2), or one of them is through.
DirsLaunched(r, p) == r.wpc[p] = "dirs" \/ r.dirDone[p] # {}

\* One direction goroutine: computePerfectArbAmountIfExists.
\*   valid: validateArb accepts the proposed amount
\*   low:   the winning message context IsLowValue
\*   immOK: executeTx of fillImmediate succeeds
computePerfectArbAmountIfExists(c, p, d) ==
    /\ Alive
    /\ DirsLaunched(run[c], p)
    /\ d \notin run[c].dirDone[p]
    /\ \E valid \in BOOLEAN, low \in BOOLEAN, immOK \in BOOLEAN :
        LET ierr == ImmediateErr(low, immOK)
            imm == FillsImmediately(low) /\ immOK
            m == Msg(p, d)
        IN run' = IF ~valid
                  THEN [run EXCEPT ![c].dirDone[p] = @ \cup {d},
                                   ![c].dirErr[p] = @ \cup {d}]
                  ELSE [run EXCEPT
                          ![c].dirDone[p] = @ \cup {d},
                          ![c].immExec = IF imm THEN @ \cup {m} ELSE @,
                          ![c].executed = IF imm THEN Executed(@, <<m>>)
                                          ELSE @,
                          ![c].txMsgs = AddMsgBatch(@, m, low, AddMsgFlag(ierr)),
                          ![c].usedPools =
                                AddMsgUsed(@, m, low, AddMsgFlag(ierr)),
                          ![c].addCount = @ + 1]
    /\ UNCHANGED <<atomicBool, panicked, arb, uniq, pc, ret, cas, ext, ticksErr>>

\* The process is gone: no goroutine, no state.
Crash ==
    /\ panicked' = TRUE
    /\ atomicBool' = FALSE
    /\ pc' = [c \in Calls |-> "crashed"]
    /\ ret' = [c \in Calls |-> None]
    /\ cas' = [c \in Calls |-> None]
    /\ ext' = [c \in Calls |-> {}]
    /\ ticksErr' = [c \in Calls |-> None]
    /\ run' = [c \in Calls |-> FreshRun]
    /\ arb' = arb
    /\ uniq' = uniq

\* Faulty variant of fillWgWait: one finished direction is enough.
fillWgWaitAny(done) == done # {}

\* fillWg.Wait() after fillWg.Add(2): both direction goroutines have called
\* fillWg.Done().
fillWgWait(done) == done = Dirs

\* The error processOrderBook returns once both directions are through: nil,
\* whatever the directions returned (their errors are logged).
processOrderBookErr(dirErr) == Nil

\* The worker's deferred send of its result, after processOrderBook returned
\* (fillWg.Wait() passed, or getFillableOrders failed).  A send on a closed
\* channel panics, and nothing recovers the panic.
sendResult(c, p) ==
    /\ Alive
    /\ \/ run[c].wpc[p] = "send"
       \/ run[c].wpc[p] = "dirs" /\ fillWgWait(run[c].dirDone[p])
    /\ IF run[c].chanState = "closed"
       THEN Crash
       ELSE /\ LET err == IF run[c].wpc[p] = "send" THEN run[c].werr[p]
                          ELSE processOrderBookErr(run[c].dirErr[p])
               IN run' = [run EXCEPT
                            ![c].wpc[p] = "done",
                            ![c].werr[p] = err,
                            ![c].dirErr[p] = {},
                            ![c].resultChan =
                                Append(@, [err |-> err, poolID |-> p])]
            /\ UNCHANGED <<atomicBool, panicked, arb, uniq, pc, ret, cas, ext,
                           ticksErr>>

----------------------------------------------------------------------------

Next ==
    \/ \E c \in Calls :
        \/ GetAllCanonicalOrderbookPoolIDs(c)
        \/ fetchTicksForModifiedOrderbooks(c)
        \/ CompareAndSwap(c)
        \/ AllBalances(c)
        \/ GetPrices(c)
        \/ blockctxNew(c)
        \/ LaunchWorker(c)
        \/ Cancel(c)
        \/ CollectResult(c)
        \/ CollectCancelled(c)
        \/ CollectTimeout(c)
        \/ GetMsgs(c)
        \/ tryFillSimulate(c)
        \/ tryFillExecute(c)
        \/ closeResultChan(c)
        \/ StoreFalse(c)
        \/ Return(c)
    \/ \E c \in Calls, p \in Pools :
        \/ processOrderBook(c, p)
        \/ sendResult(c, p)
        \/ \E d \in Dirs : computePerfectArbAmountIfExists(c, p, d)

Spec == Init /\ [][Next]_vars

----------------------------------------------------------------------------
(* One worker in isolation: the clamping of processOrderBook and the arb    *)
(* search of one direction (computePerfectArbAmountIfExists, tryValidate,   *)
(* fillImmediate), against a validation oracle that answers each call as it *)
(* likes.                                                                   *)

\* Largest fillable amount and wallet balance drawn.
MaxAmount == 100
\* Largest fee cap the validation oracle gives a message context.
MaxFeeCap == 2

Amounts == {MaxAmount \div 2, MaxAmount}
FeeCaps == 1..MaxFeeCap

maxRecursionAttemptsArbSearch == 15

\* Faulty variant of Clamp: the larger of the two, as the comment above the
\* clamping has it ("Choose max value").
ClampMax(fillableAmount, userBalance) ==
    IF userBalance > fillableAmount THEN userBalance ELSE fillableAmount

\* if userBalance.LT(fillableAmount) { fillableAmount = userBalance }
Clamp(fillableAmount, userBalance) ==
    IF userBalance < fillableAmount THEN userBalance ELSE fillableAmount

\* proposedAmountIn.ToLegacyDec().MulMut(multiplier).TruncateInt(),
\* multiplier = 1.05
amountInHigh(proposedAmountIn) == (proposedAmountIn * 105) \div 100

\* amountInLow.Add(amountInHigh).QuoRoundupMut(two).Ceil().TruncateInt()
Mid(amountInLow, amountInHigh_) == (amountInLow + amountInHigh_ + 1) \div 2

\* A message context: the amount it was validated for and its fee cap.
MsgCtx(amountIn, maxFeeCap) == [amountIn |-> amountIn, maxFeeCap |-> maxFeeCap]

\* What tryValidate returns: (msgCtx, amount, nil).
Found(msgCtx, amount) == [msgCtx |-> msgCtx, amount |-> amount]

\* The worker before getFillableOrders has answered.
ArbStart(fa, fb, bq, bb) ==
    [ pc |-> "clamp",
      fillableAskAmountQuoteDenom |-> fa,
      fillableBidAmountBaseDenom  |-> fb,
      userBalanceQuoteDenom |-> bq,
      userBalanceBaseDenom  |-> bb ]

ArbInit ==
    /\ atomicBool = FALSE
    /\ panicked = FALSE
    /\ pc = [c \in Calls |-> "idle"]
    /\ ret = [c \in Calls |-> None]
    /\ cas = [c \in Calls |-> None]
    /\ ext = [c \in Calls |-> {}]
    /\ ticksErr = [c \in Calls |-> None]
    /\ run = [c \in Calls |-> FreshRun]
    /\ uniq = NoUniq
    /\ \E fa \in Amounts, fb \in Amounts, bq \in Amounts \cup {0},
          bb \in Amounts \cup {0} :
        arb = ArbStart(fa, fb, bq, bb)

mainVars == <<atomicBool, panicked, pc, ret, cas, ext, ticksErr, run>>

\* processOrderBook: both fillable amounts are clamped by the wallet, the
\* ask side by the quote-denom balance and the bid side by the base-denom
\* balance; the results are what the direction goroutines pass on.
ClampFillable ==
    /\ arb.pc = "clamp"
    /\ arb' = [ pc |-> "dirs",
                in |-> arb,
                ask |-> Clamp(arb.fillableAskAmountQuoteDenom,
                              arb.userBalanceQuoteDenom),
                bid |-> Clamp(arb.fillableBidAmountBaseDenom,
                              arb.userBalanceBaseDenom) ]
    /\ UNCHANGED <<mainVars, uniq>>

\* One direction goroutine calls computePerfectArbAmountIfExists with the
\* clamped amount of its side.  From here on the state is the frame of that
\* call: processOrderBook reads none of its own variables again.
StartSearch(d) ==
    /\ arb.pc = "dirs"
    /\ arb' = [ pc |-> "validate",
                dir |-> d,
                proposedAmountIn |-> arb[d] ]
    /\ UNCHANGED <<mainVars, uniq>>

\* What every frame of computePerfectArbAmountIfExists past the first
\* validateArb holds: its arguments, the error of that validateArb, and the
\* number of midpoints validated so far.
Frame(at, f, verr, rounds) ==
    [ pc |-> at, dir |-> f.dir, proposedAmountIn |-> f.proposedAmountIn,
      verr |-> verr, rounds |-> rounds ]

\* computePerfectArbAmountIfExists has returned (amount, err); immediate and
\* txMsgs tell what it did with the winning message context, if any.
Returns(f, amount, err, immediate, txMsgs) ==
    [ amount |-> amount, err |-> err, immediate |-> immediate,
      txMsgs |-> txMsgs ] @@ f

\* What validateArb answered for a midpoint: whether it validated and, if
\* so, the fee cap of the message context it returned.
Tried(mid, ok, maxFeeCap) ==
    [ amountIn |-> mid, ok |-> ok, maxFeeCap |-> IF ok THEN maxFeeCap ELSE 0 ]

NoAmount == 0 - 1

NoTry == Tried(NoAmount, FALSE, 0)

\* The largest midpoint validated so far that validated with a fee cap not
\* below that of the proposed amount's message context; NoAmount if none.
BestTried(bestTried, first, tried) ==
    IF tried.ok /\ tried.maxFeeCap >= first.maxFeeCap
                /\ tried.amountIn > bestTried
    THEN tried.amountIn
    ELSE bestTried

\* The call of tryValidate made by computePerfectArbAmountIfExists.
SearchFrame(f, verr, msgCtx) ==
    [ first |-> msgCtx,              \* validateArb of the proposed amount
      amountInLow |-> f.proposedAmountIn,
      amountInHigh |-> amountInHigh(f.proposedAmountIn),
      lowMsgCtx |-> msgCtx,
      attemptsRemaining |-> maxRecursionAttemptsArbSearch,
      stack |-> <<>>,                \* callers waiting in Case 2
      last |-> NoTry,                \* the latest validateArb of a midpoint
      bestTried |-> NoAmount ]       \* see BestTried
    @@ Frame("tryValidate", f, verr, 0)

\* Faulty variant of AfterValidateArb: the error of validateArb is logged and
\* the search goes on with the message context it got.
AfterValidateArbGoOn(f, verr, msgCtx) == SearchFrame(f, verr, msgCtx)

\* if err != nil { return osmomath.Int{}, err }
AfterValidateArb(f, verr, msgCtx) ==
    IF verr # Nil
    THEN Returns([addMsgCalls |-> 0] @@ Frame("done", f, verr, 0),
                 0, verr, None, <<>>)
    ELSE SearchFrame(f, verr, msgCtx)

\* msgCtx, err := o.validateArb(ctx, proposedAmountIn, ...)
validateArb ==
    /\ arb.pc = "validate"
    /\ \E verr \in {Nil, "ErrValidate"}, cap \in FeeCaps :
        arb' = AfterValidateArb(arb, verr, MsgCtx(arb.proposedAmountIn, cap))
    /\ UNCHANGED <<mainVars, uniq>>

\* Faulty variant of tryValidateAccepts: any midpoint that validates is taken.
tryValidateAcceptsAny(ok, midCap, lowCap) == ok

\* Faulty variant of tryValidateAccepts: an equal fee cap is not enough.
tryValidateAcceptsStrict(ok, midCap, lowCap) == ok /\ midCap > lowCap

\* err == nil && midMsgCtx.GetMaxFeeCap().GTE(lowMsgCtx.GetMaxFeeCap())
tryValidateAccepts(ok, midCap, lowCap) == ok /\ midCap >= lowCap

\* Faulty variant of tryValidateBottom: one attempt too many.
tryValidateBottomBelowZero(attemptsRemaining) == attemptsRemaining < 0

\* if attemptsRemaining == 0
tryValidateBottom(attemptsRemaining) == attemptsRemaining = 0

\* One call of tryValidate.  With no attempt left it returns its low.
\* Otherwise the midpoint is validated: Case 1 recurses into (mid, high) and
\* returns what that call returns; Case 2 recurses into (low, mid) and waits
\* for it.
tryValidate ==
    /\ arb.pc = "tryValidate"
    /\ IF tryValidateBottom(arb.attemptsRemaining)
       THEN arb' = [ first |-> arb.first, stack |-> arb.stack,
                     top |-> Found(arb.lowMsgCtx, arb.amountInLow),
                     adopted |-> arb.amountInLow,
                     amountInHigh |-> arb.amountInHigh,
                     bestTried |-> arb.bestTried ]
                   @@ Frame("return", arb, arb.verr, arb.rounds)
       ELSE LET mid == Mid(arb.amountInLow, arb.amountInHigh)
            IN \E ok \in BOOLEAN, cap \in FeeCaps :
                arb' = IF tryValidateAccepts(ok, cap, arb.lowMsgCtx.maxFeeCap)
                       THEN [arb EXCEPT
                               !.amountInLow = mid,
                               !.lowMsgCtx = MsgCtx(mid, cap),
                               !.attemptsRemaining = @ - 1,
                               !.rounds = @ + 1,
                               !.last = Tried(mid, ok, cap),
                               !.bestTried = BestTried(@, arb.first,
                                                Tried(mid, ok, cap))]
                       ELSE [arb EXCEPT
                               !.amountInHigh = mid,
                               !.stack = Append(@,
                                    [lowMsgCtx |-> arb.lowMsgCtx,
                                     amountInLow |-> arb.amountInLow]),
                               !.attemptsRemaining = @ - 1,
                               !.rounds = @ + 1,
                               !.last = Tried(mid, ok, cap),
                               !.bestTried = BestTried(@, arb.first,
                                                Tried(mid, ok, cap))]
    /\ UNCHANGED <<mainVars, uniq>>

\* Faulty variant of tryValidateTakesTop: an equal fee cap is not enough.
tryValidateTakesTopStrict(topCap, lowCap) == topCap > lowCap

\* err == nil && topMsgCtx.GetMaxFeeCap().GTE(lowMsgCtx.GetMaxFeeCap())
tryValidateTakesTop(topCap, lowCap) == topCap >= lowCap

\* Faulty variant of tryValidateErr: a search that found nothing better than
\* the proposed amount's message context reports an error.
tryValidateErrNoBetter(first, top) ==
    IF top.msgCtx = first THEN "ErrSearch" ELSE Nil

\* The error tryValidate returns: nil on each of its return statements.
tryValidateErr(first, top) == Nil

\* What computePerfectArbAmountIfExists holds past tryValidate.
Result(f, at) ==
    [ first |-> f.first, msgCtx |-> f.top.msgCtx, result |-> f.top.amount,
      adopted |-> f.adopted, amountInHigh |-> f.amountInHigh,
      bestTried |-> f.bestTried ]
    @@ Frame(at, f, f.verr, f.rounds)

\* A call of tryValidate has returned top.  The innermost caller waiting in
\* Case 2 takes it if its fee cap is not below that of the caller's own low
\* message context, else returns its own low (Case 3).  With no caller left
\* the result is that of computePerfectArbAmountIfExists's call, which
\* returns the proposed amount at once if it got an error.
tryValidateReturn ==
    /\ arb.pc = "return"
    /\ IF arb.stack = <<>>
       THEN arb' = IF tryValidateErr(arb.first, arb.top) # Nil
                   THEN Returns([ lowValue |-> FALSE, addMsgCalls |-> 0 ]
                                @@ Result(arb, "done"),
                                arb.proposedAmountIn, Nil, None, <<>>)
                   ELSE Result(arb, "fill")
       ELSE LET frame == arb.stack[Len(arb.stack)]
            IN arb' = [arb EXCEPT
                  !.stack = SubSeq(@, 1, Len(@) - 1),
                  !.top = IF tryValidateTakesTop(@.msgCtx.maxFeeCap,
                                            frame.lowMsgCtx.maxFeeCap)
                          THEN @
                          ELSE Found(frame.lowMsgCtx, frame.amountInLow)]
    /\ UNCHANGED <<mainVars, uniq>>

\* if !msgCtx.IsLowValue() { ierr = o.fillImmediate(ctx, msgCtx) }
fillImmediate ==
    /\ arb.pc = "fill"
    /\ \E low \in BOOLEAN, immOK \in BOOLEAN :
        arb' = [ first |-> arb.first, msgCtx |-> arb.msgCtx,
                 result |-> arb.result,
                 adopted |-> arb.adopted,
                 amountInHigh |-> arb.amountInHigh,
                 bestTried |-> arb.bestTried,
                 lowValue |-> low,
                 immediate |-> IF ~FillsImmediately(low) THEN None
                               ELSE IF immOK THEN "ok" ELSE "failed",
                 ierr |-> ImmediateErr(low, immOK) ]
               @@ Frame("addmsg", arb, arb.verr, arb.rounds)
    /\ UNCHANGED <<mainVars, uniq>>

\* txCtx.AddMsg(msgCtx, ierr != nil) on the block's transaction context,
\* here empty before the call; return result, nil
AddMsg ==
    /\ arb.pc = "addmsg"
    /\ arb' = Returns([ first |-> arb.first, msgCtx |-> arb.msgCtx,
                        adopted |-> arb.adopted,
                        amountInHigh |-> arb.amountInHigh,
                        bestTried |-> arb.bestTried,
                        lowValue |-> arb.lowValue, addMsgCalls |-> 1 ]
                      @@ Frame("done", arb, arb.verr, arb.rounds),
                      arb.result, Nil, arb.immediate,
                      AddMsgBatch(<<>>, arb.msgCtx, arb.lowValue,
                                  AddMsgFlag(arb.ierr)))
    /\ UNCHANGED <<mainVars, uniq>>

ArbNext ==
    \/ ClampFillable
    \/ \E d \in Dirs : StartSearch(d)
    \/ validateArb
    \/ tryValidate
    \/ tryValidateReturn
    \/ fillImmediate
    \/ AddMsg

ArbSpec == ArbInit /\ [][ArbNext]_vars

\* The goroutine of the search is scheduled and every call it makes returns.
ArbFair == ArbSpec /\ WF_vars(ArbNext)

----------------------------------------------------------------------------
(* getUniqueOrderbookDenoms in isolation: one call on a list of canonical   *)
(* orderbooks drawn from the lists of at most MaxOrderbooks pools over      *)
(* Denoms, the empty list included.                                         *)

MaxOrderbooks == 2

\* orderbookplugindomain.BaseDenom, the fixed reference denom.
BaseDenom == "uosmo"

Denoms == {BaseDenom, "uusdc", "uatom"}

\* domain.CanonicalOrderBooksResult, cut down to the two fields read here.
CanonicalOrderBooksResult == [Base : Denoms, Quote : Denoms]

CanonicalOrderbookLists ==
    UNION {[1..n -> CanonicalOrderBooksResult] : n \in 0..MaxOrderbooks}

\* The elements of a slice.
Elems(slice) == {slice[i] : i \in 1..Len(slice)}

UniqStart(canonicalOrderbooks) ==
    [ pc                  |-> "range",
      canonicalOrderbooks |-> canonicalOrderbooks,
      i                   |-> 1,
      uniqueDenoms        |-> {},
      denoms              |-> <<>> ]

UniqInit ==
    /\ atomicBool = FALSE
    /\ panicked = FALSE
    /\ pc = [c \in Calls |-> "idle"]
    /\ ret = [c \in Calls |-> None]
    /\ cas = [c \in Calls |-> None]
    /\ ext = [c \in Calls |-> {}]
    /\ ticksErr = [c \in Calls |-> None]
    /\ run = [c \in Calls |-> FreshRun]
    /\ arb = NoArb
    /\ \E books \in CanonicalOrderbookLists : uniq = UniqStart(books)

\* uniqueDenoms[key] = struct{}{}: the keys of the map are a set.
MapSet(uniqueDenoms, key) == uniqueDenoms \cup {key}

\* One round of the loop over the canonical orderbooks: the base and the
\* quote denom of the pool become keys of the map.
RangeCanonicalOrderbooks ==
    /\ uniq.pc = "range"
    /\ uniq.i <= Len(uniq.canonicalOrderbooks)
    /\ LET canonicalOrderbook == uniq.canonicalOrderbooks[uniq.i]
       IN  uniq' = [uniq EXCEPT
                !.uniqueDenoms = MapSet(MapSet(@, canonicalOrderbook.Base),
                                        canonicalOrderbook.Quote),
                !.i = @ + 1]
    /\ UNCHANGED <<mainVars, arb>>

\* After the loop the base denom becomes a key of the map, whatever the
\* pools were.
AppendBaseDenomSkipped(uniqueDenoms) == uniqueDenoms

AppendBaseDenom(uniqueDenoms) == MapSet(uniqueDenoms, BaseDenom)

SetBaseDenom ==
    /\ uniq.pc = "range"
    /\ uniq.i > Len(uniq.canonicalOrderbooks)
    /\ uniq' = [uniq EXCEPT !.uniqueDenoms = AppendBaseDenom(@),
                            !.pc = "convert"]
    /\ UNCHANGED <<mainVars, arb>>

\* The keys the loop over the map has still to visit.  A Go map is ranged
\* over in an unspecified order, each key once.
ToVisit(uniqueDenoms, denoms) == uniqueDenoms \ Elems(denoms)

\* One round of the loop over the map: the key is appended to the slice.
RangeUniqueDenoms ==
    /\ uniq.pc = "convert"
    /\ Len(uniq.denoms) < Cardinality(uniq.uniqueDenoms)
    /\ \E denom \in ToVisit(uniq.uniqueDenoms, uniq.denoms) :
        uniq' = [uniq EXCEPT !.denoms = Append(@, denom)]
    /\ UNCHANGED <<mainVars, arb>>

ReturnDenoms ==
    /\ uniq.pc = "convert"
    /\ Len(uniq.denoms) = Cardinality(uniq.uniqueDenoms)
    /\ uniq' = [uniq EXCEPT !.pc = "done"]
    /\ UNCHANGED <<mainVars, arb>>

UniqNext ==
    \/ RangeCanonicalOrderbooks
    \/ SetBaseDenom
    \/ RangeUniqueDenoms
    \/ ReturnDenoms

DenomSpec == UniqInit /\ [][UniqNext]_vars

----------------------------------------------------------------------------
(* Properties.                                                              *)

\* The gated section: between a successful CompareAndSwap(false, true) and
\* the deferred Store(false).
GatedPcs == {"balances", "prices", "blockctx", "launch", "collect",
             "fill_sim", "fill_exec", "close", "release"}

InGate(c) == pc[c] \in GatedPcs

\* The result of the batch tryFill of the run, once it has returned.
BatchRes(c) == IF run[c].fillLog = <<>> THEN None ELSE run[c].fillLog[1].res

BatchFailed(c) == BatchRes(c) \in {"ErrSimulate", "ErrExecute"}

\* ProcessEndBlock has left the fill / fallback logic: its return value is
\* fixed and only the deferred calls are left to run.
Returning(c) == pc[c] \in {"close", "release"}

\* C1: at most one invocation of ProcessEndBlock is inside the gated section
\* at any time, and the flag stays set for as long as one is inside: an
\* invocation skipped at the gate does not clear it.
C1_SingleFlight ==
    /\ Cardinality({c \in Calls : InGate(c)}) <= 1
    /\ (\E c \in Calls : InGate(c)) => atomicBool = TRUE

\* C1 witness: one invocation is inside the gated section while another has
\* been skipped at the gate.
C1_Witness ==
    \E c1, c2 \in Calls :
        /\ InGate(c1)
        /\ cas[c2] = "lost"
        /\ pc[c2] = "exit"
        /\ atomicBool = TRUE

\* C2, as stated: an invocation skipped at the gate returns nil and has had
\* no side effect at all: no tick refresh, no balance or price fetch, no
\* worker, no fill.
C2_SkippedNoSideEffects ==
    \A c \in Calls :
        cas[c] = "lost" =>
            /\ ret[c] = Nil
            /\ ext[c] \cap {"ticks", "balances", "prices"} = {}
            /\ run[c] = FreshRun

\* C2, amended: an invocation skipped at the gate returns nil there, and
\* from the gate on it has no side effect: no balance or price fetch, no
\* block context, no worker, no message, no fill.  What it did before the
\* gate stands: the registry fetch, and the tick refresh of the updated
\* canonical pools.
C2_SkippedNoGatedEffects ==
    \A c \in Calls :
        cas[c] = "lost" =>
            /\ pc[c] = "exit"
            /\ ret[c] = Nil
            /\ "registry" \in ext[c]
            /\ ext[c] \subseteq {"registry", "ticks"}
            /\ run[c] = FreshRun

\* C2 witness: an invocation was skipped, after refreshing ticks, while
\* another one is inside the gate with a worker running.
C2_Witness ==
    \E c1, c2 \in Calls :
        /\ InGate(c1)
        /\ LiveWorkers(c1) # {}
        /\ cas[c2] = "lost"
        /\ "ticks" \in ext[c2]

\* C3: the flag is set only while an invocation is inside the gated section:
\* whatever the exit path, an invocation that acquired the gate has cleared
\* the flag once it has returned, so the gate is never left stuck.
C3_GateReleased ==
    atomicBool = TRUE => \E c \in Calls : InGate(c)

\* C3 witness: an invocation that had acquired the gate has returned (workers
\* of its run are still around), and another invocation holds the gate now.
C3_Witness ==
    \E c1, c2 \in Calls :
        /\ pc[c1] = "orphaned"
        /\ cas[c2] = "won"
        /\ InGate(c2)

\* C4: no worker sends its result on the result channel after
\* ProcessEndBlock has closed it: no unconsumed worker causes a fault.
C4_NoSendOnClosedChannel == ~panicked

\* C5: once the orchestrator has read the batch (GetMsgs) and is in tryFill
\* or the fallback or returning, no worker performs AddMsg on the block's
\* transaction context.
C5_NoAddMsgAfterRead ==
    [][\A c \in Calls :
        (pc[c] \in {"fill_sim", "fill_exec", "close", "release"}
            /\ pc'[c] \in {"fill_sim", "fill_exec", "close", "release"})
        => run'[c].addCount = run[c].addCount]_vars

\* C6: the i-th fallback fill simulates (and so executes) exactly the i-th
\* original message and nothing else.
C6_FallbackFillsOneMsg ==
    \A c \in Calls :
        (pc[c] = "fill_exec" /\ run[c].fi >= 1) =>
            run[c].sdkMsgs = <<run[c].originalMsgs[run[c].fi]>>

\* C7: when the batch fill of N > 1 original messages failed, exactly N
\* fallback fills are attempted, for the original messages 1..N in order,
\* whether or not one of them fails, and ProcessEndBlock returns nil.
C7_FallbackAttemptsAll ==
    \A c \in Calls :
        (Returning(c) /\ BatchFailed(c) /\ Len(run[c].originalMsgs) > 1) =>
            /\ Len(run[c].fillLog) = 1 + Len(run[c].originalMsgs)
            /\ \A i \in 1..Len(run[c].originalMsgs) :
                    run[c].fillLog[i + 1].fi = i
            /\ ret[c] = Nil

\* C7 witness: a batch of two failed, the first fallback fill failed too,
\* and the second was still attempted.
C7_Witness ==
    \E c \in Calls :
        /\ pc[c] = "release"
        /\ BatchFailed(c)
        /\ Len(run[c].originalMsgs) = 2
        /\ Len(run[c].fillLog) = 3
        /\ run[c].fillLog[2].res \in {"ErrSimulate", "ErrExecute"}

\* C8: when the batch fill failed and the batch read before it held exactly
\* one message, ProcessEndBlock returns that error and attempts no fallback
\* fill.
C8_SingleMsgFailureReturned ==
    \A c \in Calls :
        (Returning(c) /\ BatchFailed(c) /\ Len(run[c].originalMsgs) = 1) =>
            /\ ret[c] = BatchRes(c)
            /\ Len(run[c].fillLog) = 1
            /\ run[c].fi = 0

\* C8 witness: a one-message batch whose execution failed.
C8_Witness ==
    \E c \in Calls :
        /\ pc[c] = "release"
        /\ Len(run[c].originalMsgs) = 1
        /\ BatchRes(c) = "ErrExecute"

\* C9: when the tick refresh of an updated canonical pool failed,
\* ProcessEndBlock does not go on to the gate, and what it returns is that
\* error.
C9_TickFailureAborts ==
    \A c \in Calls :
        ticksErr[c] = "ErrTicks" =>
            /\ cas[c] = None
            /\ pc[c] = "exit" => ret[c] = "ErrTicks"

\* C10: a failed registry, balance or price fetch is what ProcessEndBlock
\* returns, with nothing processed: no block context, no channel, no worker,
\* no message, no fill; a registry failure comes before any tick refresh and
\* before the gate is touched.
C10_FetchFailureNoProcessing ==
    \A c \in Calls :
        /\ ret[c] \in {"ErrRegistry", "ErrBalances", "ErrPrices"} =>
                /\ run[c] = FreshRun
                /\ pc[c] \in {"exit", "release"}
        /\ ret[c] = "ErrRegistry" =>
                /\ ext[c] = {"registry"}
                /\ cas[c] = None
                /\ ticksErr[c] = None
        /\ ret[c] = "ErrBalances" =>
                ext[c] \ {"ticks"} = {"registry", "balances"}
        /\ ret[c] = "ErrPrices" =>
                ext[c] \ {"ticks"} = {"registry", "balances", "prices"}

\* C10 witness: the price fetch failed inside the gate.
C10_Witness ==
    \E c \in Calls : pc[c] = "release" /\ ret[c] = "ErrPrices"

\* C16: no message is executed twice within a block: a message executed by
\* fillImmediate is not in the pending batch, and neither the batch fill nor
\* the fallback executes a message that was executed before.
C16_NoDoubleExecution ==
    \A c \in Calls :
        /\ \A p \in Pools, d \in Dirs : run[c].executed[p, d] <= 1
        /\ \A i \in 1..Len(run[c].txMsgs) : run[c].txMsgs[i] \notin run[c].immExec

\* C17: the messages of the pending batch reference pairwise distinct pools.
C17_DistinctPoolsInBatch ==
    \A c \in Calls :
        \A i, j \in 1..Len(run[c].txMsgs) :
            i # j => run[c].txMsgs[i].pool # run[c].txMsgs[j].pool

\* Workers launched by the run: the pools whose goroutine was started.
Launched(r) == {p \in Pools : r.wpc[p] # None}

\* C18: the collection loop runs once per launched worker, and a launched
\* worker that is through with processOrderBook writes one result to the
\* result channel: its deferred send puts (err, poolID) on the channel.
C18_OneResultPerWorker ==
    [][\A c \in Calls :
        /\ pc'[c] \in {"collect", "fill_sim", "fill_exec"} =>
                CollectBound(c)' = Cardinality(Launched(run'[c]))
        /\ \A p \in Pools :
            (run[c].wpc[p] \in {"dirs", "send"}
                /\ run'[c].wpc[p] \notin {"dirs", "send"}) =>
                    /\ run'[c].wpc[p] = "done"
                    /\ run'[c].resultChan =
                        Append(run[c].resultChan,
                               [err |-> run[c].werr[p], poolID |-> p])]_vars

\* C19: the collection loop is left after exactly eligible-pool-count
\* iterations and only towards the fill: an invocation collecting results
\* goes on to the fill, whatever the workers do.
C19_CollectionProceedsToFill ==
    [][\A c \in Calls :
        pc[c] = "collect" =>
            \/ pc'[c] = "collect"
            \/ /\ pc'[c] = "fill_sim"
               /\ run[c].ci = CollectBound(c)]_vars

\* tryFill returns to ProcessEndBlock in this step.
tryFillReturns(c) == Len(run'[c].fillLog) = Len(run[c].fillLog) + 1

\* The error the last tryFill returned.
tryFillErr(r) == r.fillLog[Len(r.fillLog)].err

\* C27: tryFill on an empty batch returns nil and has called nothing; on a
\* non-empty batch it ranks and filters, then simulates; when the
\* simulation fails it returns that error, with the gas total and the
\* executions as they were; only when it succeeded does it update the gas
\* total and then execute, and when the execution fails it returns that
\* error and nothing is executed.
C27_TryFillOrder ==
    /\ [][\A c \in Calls :
            (pc[c] = "fill_sim"
                /\ (tryFillReturns(c) \/ pc'[c] = "fill_exec")) =>
                IF run[c].txMsgs = <<>>
                THEN /\ tryFillReturns(c)
                     /\ tryFillErr(run'[c]) = Nil
                     /\ run'[c].ops = <<>>
                     /\ run'[c].txMsgs = <<>>
                     /\ run'[c].adjustedGasTotal = run[c].adjustedGasTotal
                     /\ run'[c].executed = run[c].executed
                ELSE /\ Len(run'[c].ops) = 2
                     /\ run'[c].ops[1] = Op("RankAndFilterMsgs", Nil)
                     /\ run'[c].ops[2].op = "simulateMsgs"
                     /\ run'[c].adjustedGasTotal = run[c].adjustedGasTotal
                     /\ run'[c].executed = run[c].executed
                     /\ tryFillReturns(c) =>
                            /\ run'[c].ops[2].err # Nil
                            /\ tryFillErr(run'[c]) = run'[c].ops[2].err
                     /\ pc'[c] = "fill_exec" =>
                            run'[c].ops[2].err = Nil]_vars
    /\ [][\A c \in Calls :
            (pc[c] = "fill_exec" /\ tryFillReturns(c)) =>
                /\ Len(run'[c].ops) = 4
                /\ SubSeq(run'[c].ops, 1, 2) = run[c].ops
                /\ run'[c].ops[3] = Op("UpdateAdjustedGasTotal", Nil)
                /\ run'[c].ops[4].op = "executeTx"
                /\ run'[c].adjustedGasTotal = "adjustedGasAmount"
                /\ tryFillErr(run'[c]) = run'[c].ops[4].err
                /\ run'[c].ops[4].err # Nil =>
                        run'[c].executed = run[c].executed]_vars
    /\ [](\A c \in Calls :
            pc[c] = "fill_exec" =>
                run[c].ops = <<Op("RankAndFilterMsgs", Nil),
                               Op("simulateMsgs", Nil)>>)

\* C27 witness: a fallback tryFill has failed in its simulation after the
\* batch tryFill had updated the gas total and failed in its execution.
C27_Witness ==
    \E c \in Calls :
        /\ Len(run[c].fillLog) = 2
        /\ run[c].fillLog[1].err = "ErrExecute"
        /\ run[c].fillLog[2].err = "ErrSimulate"
        /\ run[c].ops = <<Op("RankAndFilterMsgs", Nil),
                          Op("simulateMsgs", "ErrSimulate")>>
        /\ run[c].adjustedGasTotal = "adjustedGasAmount"

\* A direction goroutine of the worker of pool p finishes in this step.
DirectionEnds(c, p) ==
    /\ run'[c].dirDone[p] # run[c].dirDone[p]
    /\ run'[c].dirDone[p] # {}

C26_DirectionFailureReported ==
    [][\A c \in Calls, p \in Pools :
        (run[c].wpc[p] = "dirs" /\ run'[c].wpc[p] = "done"
            /\ run[c].dirErr[p] # {}) =>
                /\ run'[c].werr[p] # Nil
                /\ run'[c].resultChan[Len(run'[c].resultChan)].err # Nil]_vars

----------------------------------------------------------------------------
(* Properties of the arb search (ArbSpec, ArbFair).                         *)

\* The search has got past the validation of the proposed amount.
Searched == arb.pc \in {"tryValidate", "return", "fill", "addmsg", "done"}

\* C11: when the proposed amount validated, the amount the search returns
\* lies between the proposed amount and the proposed amount times 1.05, and
\* the fee cap of the message context it returns is at least the fee cap of
\* the message context of the proposed amount, whatever the oracle answers.
\* The same is true of the best amount so far at every call of tryValidate.
C11_SearchWithinBounds ==
    LET Within(amount, msgCtx) ==
            /\ arb.proposedAmountIn <= amount
            /\ amount * 100 <= arb.proposedAmountIn * 105
            /\ msgCtx.amountIn = amount
            /\ msgCtx.maxFeeCap >= arb.first.maxFeeCap
    IN /\ arb.pc = "tryValidate" => Within(arb.amountInLow, arb.lowMsgCtx)
       /\ arb.pc = "return" => Within(arb.top.amount, arb.top.msgCtx)
       /\ arb.pc \in {"fill", "addmsg"} => Within(arb.result, arb.msgCtx)
       /\ (arb.pc = "done" /\ arb.verr = Nil) => Within(arb.amount, arb.msgCtx)

\* C11 witness: a search that ended on the upper end of the range with a
\* fee cap above that of the proposed amount.
C11_Witness ==
    /\ arb.pc = "done"
    /\ arb.verr = Nil
    /\ arb.proposedAmountIn = MaxAmount
    /\ arb.amount = (MaxAmount * 105) \div 100
    /\ arb.msgCtx.maxFeeCap > arb.first.maxFeeCap

\* C12: a search validates at most 15 midpoints after the proposed amount,
\* it terminates, and when the proposed amount validated it returns an
\* amount and no error.
C12_SearchBounded ==
    /\ [](Searched => arb.rounds <= 15)
    /\ []((arb.pc = "done" /\ arb.verr = Nil) =>
            (arb.err = Nil /\ arb.amount >= arb.proposedAmountIn))
    /\ (arb.pc = "validate" ~> arb.pc = "done")

\* C12 witness: a search that used all 15 rounds and returned without error,
\* having gone into the lower half at least once.
C12_Witness ==
    /\ arb.pc = "done"
    /\ arb.rounds = 15
    /\ arb.err = Nil
    /\ arb.amount > arb.proposedAmountIn
    /\ arb.amount * 100 < arb.proposedAmountIn * 105

\* C13: when the validation of the proposed amount fails, the search
\* returns the zero amount and that error, and nothing else has happened:
\* no midpoint validated, no immediate execution, no message added.
C13_InvalidProposalYieldsNothing ==
    (Searched /\ arb.verr # Nil) =>
        /\ arb.pc = "done"
        /\ arb.amount = 0
        /\ arb.err = arb.verr
        /\ arb.rounds = 0
        /\ arb.immediate = None
        /\ arb.txMsgs = <<>>

\* C13 witness: a search whose proposed amount did not validate has returned.
C13_Witness ==
    /\ arb.pc = "done"
    /\ arb.verr = "ErrValidate"
    /\ arb.proposedAmountIn > 0

C15_FailedImmediateBatched ==
    /\ (arb.pc \in {"addmsg", "done"} /\ arb.verr = Nil /\ ~arb.lowValue) =>
            arb.immediate \in {"ok", "failed"}
    /\ (arb.pc = "done" /\ arb.verr = Nil /\ arb.immediate = "failed") =>
            /\ arb.txMsgs = <<arb.msgCtx>>
            /\ arb.err = Nil
            /\ arb.amount = arb.msgCtx.amountIn

\* C15 witness: a search has returned after a failed immediate execution.
C15_Witness ==
    /\ arb.pc = "done"
    /\ arb.verr = Nil
    /\ ~arb.lowValue
    /\ arb.immediate = "failed"

\* The search has come back to computePerfectArbAmountIfExists with a
\* message context.
Settled == arb.pc \in {"fill", "addmsg"} \/ (arb.pc = "done" /\ arb.verr = Nil)

\* The amount computePerfectArbAmountIfExists has or is about to return.
Settlement == IF arb.pc = "done" THEN arb.amount ELSE arb.result

\* C22 as stated: the search returns the largest amount of the range that
\* validates with a fee cap not below that of the proposed amount, so no
\* midpoint the oracle validated with such a fee cap lies above the amount
\* returned.
C22_ReturnsLargestValid ==
    Settled => Settlement >= arb.bestTried

\* C22, amended: the search returns the last midpoint it adopted, or the
\* proposed amount if it adopted none, with the message context validateArb
\* returned for it; the callers waiting in Case 2 hand that result up
\* unchanged.
C22_ReturnsLastAdopted ==
    /\ arb.pc = "return" =>
            /\ arb.top.amount = arb.adopted
            /\ arb.top.msgCtx.amountIn = arb.adopted
    /\ Settled =>
            /\ Settlement = arb.adopted
            /\ arb.msgCtx.amountIn = arb.adopted
            /\ arb.adopted >= arb.proposedAmountIn
            /\ arb.adopted <= arb.amountInHigh

\* C22 witness: a search has returned a midpoint it adopted although a
\* larger midpoint had validated with a fee cap not below that of the
\* proposed amount.
C22_Witness ==
    /\ arb.pc = "done"
    /\ arb.verr = Nil
    /\ arb.amount = arb.adopted
    /\ arb.amount > arb.proposedAmountIn
    /\ arb.bestTried > arb.amount

\* C23: a midpoint that validates with the fee cap of the current low
\* baseline becomes the new baseline, with its own message context; the
\* baseline never moves down, and the amount returned is not below the
\* last baseline.
C23_TieBreakHigher ==
    /\ [][(arb.pc = "tryValidate" /\ arb'.pc = "tryValidate") =>
            /\ (arb'.last.ok
                    /\ arb'.last.maxFeeCap = arb.lowMsgCtx.maxFeeCap) =>
                    /\ arb'.amountInLow = arb'.last.amountIn
                    /\ arb'.lowMsgCtx = MsgCtx(arb'.last.amountIn,
                                               arb'.last.maxFeeCap)
            /\ arb'.amountInLow >= arb.amountInLow]_vars
    /\ [][(arb.pc = "tryValidate" /\ arb'.pc = "return") =>
            arb'.top = Found(arb.lowMsgCtx, arb.amountInLow)]_vars
    /\ [](Settled => Settlement >= arb.adopted)

\* C23 witness: a search has returned an amount above the proposed one with
\* the fee cap of the proposed amount: each midpoint it adopted was a tie.
C23_Witness ==
    /\ arb.pc = "done"
    /\ arb.verr = Nil
    /\ arb.amount > arb.proposedAmountIn
    /\ arb.msgCtx.maxFeeCap = arb.first.maxFeeCap
    /\ arb.msgCtx.amountIn = arb.amount

\* C24: when no midpoint validated with a fee cap not below that of the
\* proposed amount, the search returns the proposed amount and the message
\* context validateArb returned for it; and whatever the search found, the
\* direction returns no error and has called AddMsg exactly once with the
\* message context of the amount it returns.
C24_DegradeToBaseline ==
    /\ (Settled /\ arb.bestTried = NoAmount) =>
            /\ Settlement = arb.proposedAmountIn
            /\ arb.msgCtx = arb.first
    /\ (arb.pc = "done" /\ arb.verr = Nil) =>
            /\ arb.err = Nil
            /\ arb.addMsgCalls = 1
            /\ arb.msgCtx.amountIn = arb.amount

\* C24 witness: a search that tried 15 midpoints, none of which qualified,
\* has returned the proposed amount after one AddMsg.
C24_Witness ==
    /\ arb.pc = "done"
    /\ arb.verr = Nil
    /\ arb.rounds = maxRecursionAttemptsArbSearch
    /\ arb.bestTried = NoAmount
    /\ arb.proposedAmountIn > 0
    /\ arb.amount = arb.proposedAmountIn
    /\ arb.addMsgCalls = 1

----------------------------------------------------------------------------
(* Properties of getUniqueOrderbookDenoms (DenomSpec).                      *)

\* The denoms the result has to hold: every pool's base, every pool's quote
\* and the reference base denom.
Expected(canonicalOrderbooks) ==
    {canonicalOrderbooks[i].Base : i \in 1..Len(canonicalOrderbooks)}
        \cup {canonicalOrderbooks[i].Quote :
                i \in 1..Len(canonicalOrderbooks)}
        \cup {BaseDenom}

NoDuplicates(slice) ==
    \A i \in 1..Len(slice), j \in 1..Len(slice) :
        slice[i] = slice[j] => i = j

\* C21: for every list of canonical pools, the empty list included, the
\* list getUniqueOrderbookDenoms returns holds every pool's base denom,
\* every pool's quote denom and the reference base denom, holds nothing
\* else and holds nothing twice; while the list is built it never holds a
\* duplicate or a denom that is not expected.
C21_UniqueDenoms ==
    /\ uniq.pc = "convert"
        => /\ NoDuplicates(uniq.denoms)
           /\ Elems(uniq.denoms) \subseteq Expected(uniq.canonicalOrderbooks)
    /\ uniq.pc = "done"
        => /\ Elems(uniq.denoms) = Expected(uniq.canonicalOrderbooks)
           /\ NoDuplicates(uniq.denoms)

\* A call has returned for two pools that share a denom and do not trade
\* the reference denom; a call has returned for the empty list.
C21_Witness ==
    /\ uniq.pc = "done"
    /\ Len(uniq.canonicalOrderbooks) = 2
    /\ uniq.canonicalOrderbooks[1].Quote = uniq.canonicalOrderbooks[2].Base
    /\ BaseDenom \notin
        {uniq.canonicalOrderbooks[i].Base : i \in 1..2}
            \cup {uniq.canonicalOrderbooks[i].Quote : i \in 1..2}
    /\ Len(uniq.denoms) = 3

C21_WitnessEmpty ==
    /\ uniq.pc = "done"
    /\ uniq.canonicalOrderbooks = <<>>
    /\ uniq.denoms = <<BaseDenom>>

====
